---- MODULE Spec2Model ----
(***************************************************************************)
(* Attendance application: the relational store of schema.sql, the REST    *)
(* handlers the browser client calls, and the single-page client of        *)
(* static/app.js (view switching, handlers, monthly report rendering).     *)
(*                                                                         *)
(* The server side handlers are not part of the sources at hand; their     *)
(* behaviour is taken from the written specification (sections 4.1-4.6, 7) *)
(* and layered on the constraints that schema.sql declares.                *)
(***************************************************************************)
EXTENDS Integers, Sequences, FiniteSets, TLC

\* ---------------------------------------------------------------- bounds
\* AUTOINCREMENT counters are unbounded in the store; the model stops
\* inserting once a table's counter reaches its cap.
MaxUserId == 6
MaxClassId == 2
MaxAttId == 4
MaxHolidayId == 2
\* Days of a model month and requests that may be in flight at once.
DaysPerMonth == 2
MaxInFlight == 1

\* ------------------------------------------------------------ input sets
Months == {1, 2}
Days == 1..DaysPerMonth
Dates == Months \X Days
Usernames == {"admin", "u1", "u2", "u3"}
Passwords == {"p", "studentpass"}
Names == {"n1", "n2"}
ClassNames == {"A", "B"}
RemarkTexts == {"", "r"}
UserIds == 1..MaxUserId
ClassIds == 1..MaxClassId

\* The five panels of the page (static/app.js views object).
views == {"login", "signup", "admin", "teacher", "student"}

\* status values of the attendance table; the client's mark buttons send
\* the first three only.
Statuses == {"Full Day", "Half Day", "Absent", "Holiday"}
ButtonStatuses == {"Full Day", "Half Day", "Absent"}

VARIABLES
    classes,      \* table classes: set of [id, name]
    users,        \* table users
    attendance,   \* table attendance
    holidays,     \* table holidays: set of [id, date]
    seq,          \* AUTOINCREMENT counters, one per table
    session,      \* server session of the browser: user id, 0 when none
    today,        \* the current calendar date
    active,       \* client: names of the views carrying 'active-view'
    userInfo,     \* client: role shown in #user-info, "hidden" when hidden
    picker,       \* client: value of #month-picker, 0 for the empty value
    logoutSent,   \* client: POST /api/logout requests in flight
    pending,      \* client: monthly report requests in flight, per month
    reportView,   \* client: content of #monthly-report-container
    last          \* the last handler that ran and how it ended

vars == <<classes, users, attendance, holidays, seq, session, today, active,
          userInfo, picker, logoutSent, pending, reportView, last>>

dbVars == <<classes, users, attendance, holidays, seq>>
reportVars == <<picker, pending, reportView>>

\* ------------------------------------------------------------- the store
NoClass == 0
NoUser == 0

UserById(id) == CHOOSE u \in users : u.id = id
HasUser(id) == \E u \in users : u.id = id
SessionUser == UserById(session)

\* schema.sql: users.username TEXT NOT NULL UNIQUE
UsernameConflictSameRole(rows, username) ==
    \E u \in rows : u.username = username /\ u.role = "teacher"
UsernameConflict(rows, username) ==
    \E u \in rows : u.username = username

\* schema.sql: classes.name TEXT NOT NULL UNIQUE
ClassNameConflict(rows, name) ==
    \E c \in rows : c.name = name

\* schema.sql: attendance UNIQUE(student_user_id, date)
AttendanceConflictNever(rows, sid, date) ==
    {}
AttendanceConflictAnyDate(rows, sid, date) ==
    {r \in rows : r.student_user_id = sid}
AttendanceConflict(rows, sid, date) ==
    {r \in rows : r.student_user_id = sid /\ r.date = date}

\* schema.sql: holidays.date TEXT NOT NULL UNIQUE
HolidayConflictNever(rows, date) ==
    FALSE
HolidayConflict(rows, date) ==
    \E h \in rows : h.date = date

\* schema.sql: FOREIGN KEY (student_user_id) REFERENCES users(id)
\*             ON DELETE CASCADE
CascadeNothing(rows, uid) ==
    rows
CascadeDelete(rows, uid) ==
    {r \in rows : r.student_user_id # uid}

\* schema.sql: FOREIGN KEY (class_id) REFERENCES classes(id)
ClassExists(cid) == \E c \in classes : c.id = cid

\* The teacher behind the session, when there is one.
IsRole(role) == session # NoUser /\ HasUser(session) /\ SessionUser.role = role
StudentsOf(cid) == {u \in users : u.role = "student" /\ u.class_id = cid}
InScope(id) ==
    /\ IsRole("teacher")
    /\ \E u \in StudentsOf(SessionUser.class_id) : u.id = id

\* ---------------------------------------------------------------- client
\* static/app.js switchView
SwitchViewKeepOthers(cur, viewName) ==
    IF viewName \in views THEN cur \cup {viewName} ELSE cur
SwitchView(cur, viewName) ==
    IF viewName \in views THEN {viewName} ELSE {}

\* static/app.js updateUserInfo
UpdateUserInfo(user) ==
    IF user.role # "none" THEN user.role ELSE "hidden"

\* static/app.js showDashboard: the view it leaves active
DashboardView(cur, role) ==
    CASE role = "admin" -> SwitchView(cur, "admin")
      [] role = "teacher" -> SwitchView(cur, "teacher")
      [] role = "student" -> SwitchView(cur, "student")
      [] OTHER -> SwitchView(cur, "login")

\* ------------------------------------------------------ monthly report
\* Ascending order of a set of integers (the order rows are listed in).
RECURSIVE SortedIds(_)
SortedIds(S) ==
    IF S = {} THEN <<>>
    ELSE LET m == CHOOSE x \in S : \A y \in S : x <= y
         IN <<m>> \o SortedIds(S \ {m})

MonthOf(date) == date[1]
DayOf(date) == date[2]

EmptyAcc == [report |-> <<>>, present2 |-> 0, absent |-> 0]

\* One attendance row folded into a student's report and summary. present2
\* counts half days: Full Day adds 1.0 (two halves), Half Day adds 0.5.
AccumulateRow(acc, r) ==
    [report |-> [d \in (DOMAIN acc.report) \cup {r.date} |->
                    IF d = r.date
                    THEN [status |-> r.status, remarks |-> r.remarks]
                    ELSE acc.report[d]],
     present2 |-> acc.present2 + (CASE r.status = "Full Day" -> 2
                                    [] r.status = "Half Day" -> 1
                                    [] OTHER -> 0),
     absent |-> acc.absent + (IF r.status = "Absent" THEN 1 ELSE 0)]

\* The scan over one student's rows of the month, in row id order.
RECURSIVE Accumulate(_, _)
Accumulate(rows, acc) ==
    IF rows = {} THEN acc
    ELSE LET r == CHOOSE x \in rows : \A y \in rows : x.id <= y.id
         IN Accumulate(rows \ {r}, AccumulateRow(acc, r))

StudentMonthRows(sid, month) ==
    {r \in attendance : r.student_user_id = sid /\ MonthOf(r.date) = month}

\* GET /api/teacher/monthly_report?month=M for the class cid.
MonthlyReport(cid, month) ==
    LET ids == {u.id : u \in StudentsOf(cid)}
        acc == [i \in ids |-> Accumulate(StudentMonthRows(i, month), EmptyAcc)]
    IN [students |-> [k \in DOMAIN SortedIds(ids) |->
                         [id |-> SortedIds(ids)[k],
                          full_name |-> UserById(SortedIds(ids)[k]).full_name]],
        report |-> [i \in ids |-> acc[i].report],
        summary |-> [i \in ids |-> [present2 |-> acc[i].present2,
                                    absent |-> acc[i].absent]],
        days_in_month |-> [k \in Days |-> k],
        holidays |-> {DayOf(h.date) : h \in {x \in holidays : MonthOf(x.date) = month}}]

\* Number.prototype.toFixed(1) of a count of half days: <<units, tenths>>.
ToFixedWhole(halves) ==
    <<halves, 0>>
ToFixed1(halves) ==
    <<halves \div 2, 5 * (halves % 2)>>

\* static/app.js renderMonthlyReportTable: one day's cell of one student.
\* month is the month picker's value at the time of rendering.
RenderCellDefaultAbsent(studentReport, month, day) ==
    LET dateStr == <<month, day>>
    IN IF dateStr \in DOMAIN studentReport
       THEN [content |-> "F", title |-> studentReport[dateStr].remarks]
       ELSE [content |-> "A", title |-> ""]
RenderCell(studentReport, month, day) ==
    LET dateStr == <<month, day>>
        has == dateStr \in DOMAIN studentReport
        status == IF has THEN studentReport[dateStr].status ELSE "undefined"
    IN [content |-> CASE status = "Full Day" -> "F"
                      [] status = "Half Day" -> "H"
                      [] status = "Absent" -> "A"
                      [] status = "Holiday" -> "HLY"
                      [] OTHER -> "&nbsp;",
        title |-> IF has THEN studentReport[dateStr].remarks ELSE ""]

\* static/app.js renderMonthlyReportTable: the summary columns of a row.
RenderSummaryWhole(studentSummary) ==
    [present |-> ToFixedWhole(studentSummary.present2),
     absent |-> studentSummary.absent]
RenderSummary(studentSummary) ==
    [present |-> ToFixed1(studentSummary.present2),
     absent |-> studentSummary.absent]

\* static/app.js renderMonthlyReportTable: the whole table.
RenderMonthlyReportTable(data, month) ==
    [kind |-> "table",
     head |-> [k \in DOMAIN data.days_in_month |->
                  data.days_in_month[k] \in data.holidays],
     rows |-> [k \in DOMAIN data.students |->
                  LET student == data.students[k]
                  IN [id |-> student.id,
                      full_name |-> student.full_name,
                      cells |-> [j \in DOMAIN data.days_in_month |->
                                    RenderCell(data.report[student.id], month,
                                               data.days_in_month[j])],
                      summary |-> RenderSummary(data.summary[student.id])]]]

NoReport == [kind |-> "none"]
LoadingReport == [kind |-> "loading"]
ErrorReport == [kind |-> "error"]

\* ------------------------------------------------- server side handlers
\* Every handler answers with res = "ok" or the error kind of section 7 and
\* the tables as it leaves them.
NullStatus == "none"

\* AUTOINCREMENT: the next id of a table, never reused.
NextId(table) == seq[table] + 1
Bump(table) == [seq EXCEPT ![table] = @ + 1]

\* POST /api/login
ApiLoginUnapproved(username, password) ==
    LET match == {u \in users : u.username = username /\ u.password = password}
    IN IF match = {} THEN [res |-> "AuthError", session |-> session]
       ELSE [res |-> "ok", session |-> (CHOOSE x \in match : TRUE).id]
ApiLogin(username, password) ==
    LET match == {u \in users : u.username = username /\ u.password = password}
    IN IF match = {} THEN [res |-> "AuthError", session |-> session]
       ELSE LET u == CHOOSE x \in match : TRUE
            IN IF u.role = "teacher" /\ u.teacher_status # "approved"
               THEN [res |-> "AuthError", session |-> session]
               ELSE [res |-> "ok", session |-> u.id]

\* POST /api/register/teacher
ApiRegisterTeacher(full_name, username, password, class_id) ==
    IF UsernameConflict(users, username)
    THEN [res |-> "DuplicateError", users |-> users, seq |-> seq]
    ELSE IF ~ClassExists(class_id)
    THEN [res |-> "ValidationError", users |-> users, seq |-> seq]
    ELSE [res |-> "ok",
          users |-> users \cup {[id |-> NextId("users"), username |-> username,
                                 password |-> password, full_name |-> full_name,
                                 role |-> "teacher", class_id |-> class_id,
                                 teacher_status |-> "pending"]},
          seq |-> Bump("users")]

\* POST /api/admin/approve_teacher/:id
ApiApproveTeacher(id) ==
    IF ~IsRole("admin") THEN [res |-> "AuthError", users |-> users]
    ELSE [res |-> "ok",
          users |-> {IF u.id = id /\ u.role = "teacher"
                     THEN [u EXCEPT !.teacher_status = "approved"]
                     ELSE u : u \in users}]

\* POST /api/admin/classes
ApiCreateClass(name) ==
    IF ~IsRole("admin")
    THEN [res |-> "AuthError", classes |-> classes, seq |-> seq]
    ELSE IF ClassNameConflict(classes, name)
    THEN [res |-> "DuplicateError", classes |-> classes, seq |-> seq]
    ELSE [res |-> "ok",
          classes |-> classes \cup {[id |-> NextId("classes"), name |-> name]},
          seq |-> Bump("classes")]

\* POST /api/teacher/students
ApiAddStudent(name, username, password) ==
    IF ~IsRole("teacher")
    THEN [res |-> "AuthError", users |-> users, seq |-> seq]
    ELSE IF UsernameConflict(users, username)
    THEN [res |-> "DuplicateError", users |-> users, seq |-> seq]
    ELSE [res |-> "ok",
          users |-> users \cup {[id |-> NextId("users"), username |-> username,
                                 password |-> password, full_name |-> name,
                                 role |-> "student",
                                 class_id |-> SessionUser.class_id,
                                 teacher_status |-> NullStatus]},
          seq |-> Bump("users")]

\* PUT /api/teacher/students/:id
ApiRenameStudentAnyClass(id, newName) ==
    IF ~IsRole("teacher") THEN [res |-> "AuthError", users |-> users]
    ELSE IF ~HasUser(id) THEN [res |-> "NotFoundError", users |-> users]
    ELSE [res |-> "ok",
          users |-> {IF u.id = id THEN [u EXCEPT !.full_name = newName] ELSE u
                     : u \in users}]
ApiRenameStudent(id, newName) ==
    IF ~IsRole("teacher") THEN [res |-> "AuthError", users |-> users]
    ELSE IF ~InScope(id) THEN [res |-> "NotFoundError", users |-> users]
    ELSE [res |-> "ok",
          users |-> {IF u.id = id THEN [u EXCEPT !.full_name = newName] ELSE u
                     : u \in users}]

\* DELETE /api/teacher/students/:id
ApiDeleteStudent(id) ==
    IF ~IsRole("teacher")
    THEN [res |-> "AuthError", users |-> users, attendance |-> attendance]
    ELSE IF ~InScope(id)
    THEN [res |-> "NotFoundError", users |-> users, attendance |-> attendance]
    ELSE [res |-> "ok",
          users |-> {u \in users : u.id # id},
          attendance |-> CascadeDelete(attendance, id)]

\* The upsert of one (student, date) row: the UNIQUE(student_user_id, date)
\* conflict turns the insert into an update of status and remarks.
UpsertRow(t, sid, date, status, remarks) ==
    LET hit == AttendanceConflict(t.attendance, sid, date)
    IN IF hit = {}
       THEN [attendance |-> t.attendance \cup
                 {[id |-> t.seq["attendance"] + 1, student_user_id |-> sid,
                   date |-> date, status |-> status, remarks |-> remarks]},
             seq |-> [t.seq EXCEPT !["attendance"] = @ + 1]]
       ELSE [attendance |-> {IF r \in hit
                             THEN [r EXCEPT !.status = status, !.remarks = remarks]
                             ELSE r : r \in t.attendance},
             seq |-> t.seq]

\* POST /api/teacher/mark
ApiMark(student_id, status, remarks) ==
    LET same == [attendance |-> attendance, seq |-> seq]
    IN IF ~IsRole("teacher") THEN [res |-> "AuthError", t |-> same]
       ELSE IF status \notin Statuses THEN [res |-> "ValidationError", t |-> same]
       ELSE IF ~InScope(student_id) THEN [res |-> "NotFoundError", t |-> same]
       ELSE [res |-> "ok", t |-> UpsertRow(same, student_id, today, status, remarks)]

\* POST /api/teacher/mark_all: the upsert applied to each student of the
\* class in turn.
RECURSIVE UpsertEach(_, _, _, _)
UpsertEach(t, ids, date, status) ==
    IF ids = <<>> THEN t
    ELSE UpsertEach(UpsertRow(t, Head(ids), date, status, ""), Tail(ids), date, status)

ApiMarkAll(status) ==
    LET same == [attendance |-> attendance, seq |-> seq]
    IN IF ~IsRole("teacher") THEN [res |-> "AuthError", t |-> same]
       ELSE IF status \notin Statuses THEN [res |-> "ValidationError", t |-> same]
       ELSE [res |-> "ok",
             t |-> UpsertEach(same,
                              SortedIds({u.id : u \in StudentsOf(SessionUser.class_id)}),
                              today, status)]

\* POST /api/holidays
ApiAddHoliday(date) ==
    IF ~(IsRole("teacher") \/ IsRole("admin"))
    THEN [res |-> "AuthError", holidays |-> holidays, seq |-> seq]
    ELSE IF HolidayConflict(holidays, date)
    THEN [res |-> "DuplicateError", holidays |-> holidays, seq |-> seq]
    ELSE [res |-> "ok",
          holidays |-> holidays \cup {[id |-> NextId("holidays"), date |-> date]},
          seq |-> Bump("holidays")]

\* DELETE /api/holidays/:date
ApiDeleteHoliday(date) ==
    IF ~(IsRole("teacher") \/ IsRole("admin"))
    THEN [res |-> "AuthError", holidays |-> holidays]
    ELSE IF ~\E h \in holidays : h.date = date
    THEN [res |-> "NotFoundError", holidays |-> holidays]
    ELSE [res |-> "ok", holidays |-> {h \in holidays : h.date # date}]

\* GET /api/teacher/monthly_report
ApiMonthlyReport(month) ==
    IF ~IsRole("teacher") THEN [res |-> "AuthError"]
    ELSE [res |-> "ok", data |-> MonthlyReport(SessionUser.class_id, month)]

\* ------------------------------------------------------ client handlers
NoDate == <<0, 0>>
Rec(op, res, id) ==
    [op |-> op, res |-> res, id |-> id, date |-> NoDate, text |-> "",
     extra |-> "", pre |-> 0]

NullUser == [id |-> NoUser, role |-> "none"]
DataUser(id) == [id |-> id, role |-> UserById(id).role]

Client ==
    [active |-> active, userInfo |-> userInfo, picker |-> picker,
     pending |-> pending, reportView |-> reportView]
SetClient(c) ==
    /\ active' = c.active
    /\ userInfo' = c.userInfo
    /\ picker' = c.picker
    /\ pending' = c.pending
    /\ reportView' = c.reportView

\* static/app.js getMonthlyReport, up to the request it sends: nothing for
\* an empty month picker, otherwise "Loading report..." and a request.
GetMonthlyReport(c) ==
    IF c.picker = 0 THEN c
    ELSE [c EXCEPT !.pending = Append(@, c.picker), !.reportView = LoadingReport]
CanSend == Len(pending) < MaxInFlight

\* static/app.js showDashboard with the dashboard loader it starts; the
\* teacher's loader sets the month picker to the current month and asks for
\* that month's report.
ShowDashboard(c, user) ==
    LET shown == [c EXCEPT !.userInfo = UpdateUserInfo(user),
                           !.active = DashboardView(c.active, user.role)]
    IN IF user.role = "teacher"
       THEN GetMonthlyReport([shown EXCEPT !.picker = MonthOf(today)])
       ELSE shown

\* The page as the markup delivers it, before any handler ran.
FreshPage ==
    [active |-> {}, userInfo |-> "hidden", picker |-> 0, pending |-> <<>>,
     reportView |-> NoReport]

\* DOMContentLoaded: the session check and the view it leads to.
Boot ==
    /\ IF session # NoUser /\ HasUser(session)
       THEN SetClient(ShowDashboard(FreshPage, DataUser(session)))
       ELSE SetClient([FreshPage EXCEPT !.active = SwitchView(@, "login")])
    /\ logoutSent' = 0
    /\ last' = Rec("boot", "ok", session)
    /\ UNCHANGED <<dbVars, session, today>>

\* The 'show-signup-link' and 'show-login-link' click handlers.
ShowSignup ==
    /\ "login" \in active
    /\ active' = SwitchView(active, "signup")
    /\ last' = [Rec("switchView", "ok", 0) EXCEPT !.text = "signup"]
    /\ UNCHANGED <<dbVars, session, today, userInfo, logoutSent, reportVars>>

ShowLogin ==
    /\ "signup" \in active
    /\ active' = SwitchView(active, "login")
    /\ last' = [Rec("switchView", "ok", 0) EXCEPT !.text = "login"]
    /\ UNCHANGED <<dbVars, session, today, userInfo, logoutSent, reportVars>>

\* static/app.js handleLogin
HandleLogin(username, password) ==
    /\ "login" \in active
    /\ LET r == ApiLogin(username, password)
       IN IF r.res = "ok"
          THEN /\ UserById(r.session).role = "teacher" => CanSend
               /\ session' = r.session
               /\ SetClient(ShowDashboard(Client, DataUser(r.session)))
               /\ last' = [Rec("login", "ok", r.session)
                           EXCEPT !.text = username, !.extra = password]
          ELSE /\ last' = [Rec("login", r.res, 0)
                           EXCEPT !.text = username, !.extra = password]
               /\ UNCHANGED <<session, active, userInfo, reportVars>>
    /\ UNCHANGED <<dbVars, today, logoutSent>>

\* static/app.js handleSignup
HandleSignup(full_name, username, password, class_id) ==
    /\ "signup" \in active
    /\ LET r == ApiRegisterTeacher(full_name, username, password, class_id)
       IN /\ r.res = "ok" => seq["users"] < MaxUserId
          /\ users' = r.users
          /\ seq' = r.seq
          /\ last' = [Rec("registerTeacher", r.res,
                          IF r.res = "ok" THEN NextId("users") ELSE 0)
                      EXCEPT !.text = username]
    /\ UNCHANGED <<classes, attendance, holidays, session, today, active,
                   userInfo, logoutSent, reportVars>>

\* static/app.js handleLogout, up to the request it sends
HandleLogoutStart ==
    /\ userInfo # "hidden"
    /\ logoutSent < MaxInFlight
    /\ logoutSent' = logoutSent + 1
    /\ last' = Rec("logoutStart", "ok", session)
    /\ UNCHANGED <<dbVars, session, today, active, userInfo, reportVars>>

\* static/app.js handleLogout, from the answer of POST /api/logout on
HandleLogoutDone ==
    /\ logoutSent > 0
    /\ logoutSent' = logoutSent - 1
    /\ session' = NoUser
    /\ userInfo' = UpdateUserInfo(NullUser)
    /\ active' = SwitchView(active, "login")
    /\ last' = Rec("logout", "ok", 0)
    /\ UNCHANGED <<dbVars, today, reportVars>>

\* static/app.js handleLogout when apiCall throws: the handler ends there.
HandleLogoutFail ==
    /\ logoutSent > 0
    /\ logoutSent' = logoutSent - 1
    /\ last' = Rec("logout", "HttpError", session)
    /\ UNCHANGED <<dbVars, session, today, active, userInfo, reportVars>>

\* static/app.js approveTeacher
ApproveTeacher(id) ==
    /\ "admin" \in active
    /\ LET r == ApiApproveTeacher(id)
       IN /\ users' = r.users
          /\ last' = Rec("approveTeacher", r.res, id)
    /\ UNCHANGED <<classes, attendance, holidays, seq, session, today, active,
                   userInfo, logoutSent, reportVars>>

\* static/app.js addClass
AddClass(name) ==
    /\ "admin" \in active
    /\ LET r == ApiCreateClass(name)
       IN /\ r.res = "ok" => seq["classes"] < MaxClassId
          /\ classes' = r.classes
          /\ seq' = r.seq
          /\ last' = [Rec("addClass", r.res, 0) EXCEPT !.text = name]
    /\ UNCHANGED <<users, attendance, holidays, session, today, active,
                   userInfo, logoutSent, reportVars>>

\* static/app.js addStudent: an empty password field sends 'studentpass'.
PasswordOrDefault(password) ==
    IF password = "" THEN "studentpass" ELSE password

AddStudent(name, username, password) ==
    /\ "teacher" \in active
    /\ LET r == ApiAddStudent(name, username, PasswordOrDefault(password))
       IN /\ r.res = "ok" => seq["users"] < MaxUserId
          /\ users' = r.users
          /\ seq' = r.seq
          /\ last' = [Rec("addStudent", r.res,
                          IF r.res = "ok" THEN NextId("users") ELSE 0)
                      EXCEPT !.text = username]
    /\ UNCHANGED <<classes, attendance, holidays, session, today, active,
                   userInfo, logoutSent, reportVars>>

\* static/app.js editStudent, for a prompt answered with a non-blank name
EditStudent(id, newName) ==
    /\ "teacher" \in active
    /\ LET r == ApiRenameStudent(id, newName)
       IN /\ users' = r.users
          /\ last' = [Rec("renameStudent", r.res, id) EXCEPT !.text = newName]
    /\ UNCHANGED <<classes, attendance, holidays, seq, session, today, active,
                   userInfo, logoutSent, reportVars>>

\* static/app.js deleteStudent, for a confirmed dialog
DeleteStudent(id) ==
    /\ "teacher" \in active
    /\ LET r == ApiDeleteStudent(id)
       IN /\ users' = r.users
          /\ attendance' = r.attendance
          /\ last' = [Rec("deleteStudent", r.res, id)
                      EXCEPT !.pre = Cardinality({x \in attendance :
                                         x.student_user_id = id})]
    /\ UNCHANGED <<classes, holidays, seq, session, today, active,
                   userInfo, logoutSent, reportVars>>

\* static/app.js markAttendance; student_id 0 is the select's empty value.
MarkAttendance(student_id, status, remarks) ==
    /\ "teacher" \in active
    /\ IF student_id = 0
       THEN /\ last' = Rec("markAttendance", "NoSelection", 0)
            /\ UNCHANGED <<attendance, seq, active, userInfo, reportVars>>
       ELSE LET r == ApiMark(student_id, status, remarks)
            IN /\ r.t.seq["attendance"] <= MaxAttId
               /\ attendance' = r.t.attendance
               /\ seq' = r.t.seq
               /\ last' = [Rec("markAttendance", r.res, student_id)
                           EXCEPT !.date = today, !.text = status,
                                  !.extra = remarks,
                                  !.pre = Cardinality({x \in attendance :
                                              /\ x.student_user_id = student_id
                                              /\ x.date = today})]
               /\ IF r.res = "ok"
                  THEN /\ picker # 0 => CanSend
                       /\ SetClient(GetMonthlyReport(Client))
                  ELSE UNCHANGED <<active, userInfo, reportVars>>
    /\ UNCHANGED <<classes, users, holidays, session, today, logoutSent>>

\* static/app.js markAll, for a confirmed dialog
MarkAll(status) ==
    /\ "teacher" \in active
    /\ LET r == ApiMarkAll(status)
       IN /\ r.t.seq["attendance"] <= MaxAttId
          /\ attendance' = r.t.attendance
          /\ seq' = r.t.seq
          /\ last' = [Rec("markAll", r.res, session)
                      EXCEPT !.date = today, !.text = status,
                             !.pre = Cardinality({x \in attendance :
                                         /\ x.date = today
                                         /\ InScope(x.student_user_id)})]
          /\ IF r.res = "ok"
             THEN /\ picker # 0 => CanSend
                  /\ SetClient(GetMonthlyReport(Client))
             ELSE UNCHANGED <<active, userInfo, reportVars>>
    /\ UNCHANGED <<classes, users, holidays, session, today, logoutSent>>

\* The user picks a month in #month-picker (0: clears it).
PickMonth(m) ==
    /\ "teacher" \in active
    /\ m # picker
    /\ picker' = m
    /\ last' = Rec("pickMonth", "ok", m)
    /\ UNCHANGED <<dbVars, session, today, active, userInfo, logoutSent,
                   pending, reportView>>

\* The 'view-monthly-report-button' click: getMonthlyReport
ViewMonthlyReport ==
    /\ "teacher" \in active
    /\ picker # 0
    /\ CanSend
    /\ SetClient(GetMonthlyReport(Client))
    /\ last' = Rec("getMonthlyReport", "ok", picker)
    /\ UNCHANGED <<dbVars, session, today, logoutSent>>

\* static/app.js getMonthlyReport, from the answer of request i on: the
\* table is rendered with the month picker's value of that moment.
RemoveAt(q, i) == SubSeq(q, 1, i - 1) \o SubSeq(q, i + 1, Len(q))

ReportResponse(i) ==
    /\ i \in DOMAIN pending
    /\ LET r == ApiMonthlyReport(pending[i])
       IN /\ reportView' = IF r.res = "ok"
                           THEN RenderMonthlyReportTable(r.data, picker)
                           ELSE ErrorReport
          /\ last' = Rec("reportResponse", r.res, pending[i])
    /\ pending' = RemoveAt(pending, i)
    /\ UNCHANGED <<dbVars, session, today, active, userInfo, picker, logoutSent>>

\* static/app.js addHoliday, for a chosen date
AddHoliday(date) ==
    /\ "teacher" \in active \/ "admin" \in active
    /\ LET r == ApiAddHoliday(date)
       IN /\ r.res = "ok" => seq["holidays"] < MaxHolidayId
          /\ holidays' = r.holidays
          /\ seq' = r.seq
          /\ last' = [Rec("addHoliday", r.res, 0) EXCEPT !.date = date]
    /\ UNCHANGED <<classes, users, attendance, session, today, active,
                   userInfo, logoutSent, reportVars>>

\* static/app.js deleteHoliday, for a confirmed dialog
DeleteHoliday(date) ==
    /\ "teacher" \in active \/ "admin" \in active
    /\ LET r == ApiDeleteHoliday(date)
       IN /\ holidays' = r.holidays
          /\ last' = [Rec("deleteHoliday", r.res, 0) EXCEPT !.date = date]
          /\ IF r.res = "ok" /\ "teacher" \in active
             THEN /\ picker # 0 => CanSend
                  /\ SetClient(GetMonthlyReport(Client))
             ELSE UNCHANGED <<active, userInfo, reportVars>>
    /\ UNCHANGED <<classes, users, attendance, seq, session, today, logoutSent>>

\* The calendar moves on to the next day.
NextDate(date) ==
    IF DayOf(date) < DaysPerMonth THEN <<MonthOf(date), DayOf(date) + 1>>
    ELSE <<MonthOf(date) + 1, 1>>
FirstDate == <<1, DaysPerMonth>>
LastDate == <<2, 1>>

Tick ==
    /\ today # LastDate
    /\ today' = NextDate(today)
    /\ last' = Rec("tick", "ok", 0)
    /\ UNCHANGED <<dbVars, session, active, userInfo, logoutSent, reportVars>>

\* ----------------------------------------------------------- the system
AdminRow ==
    [id |-> 1, username |-> "admin", password |-> "p", full_name |-> "n1",
     role |-> "admin", class_id |-> NoClass, teacher_status |-> NullStatus]

\* The freshly deployed system: empty tables but for the administrator's
\* account, the page loaded without a session.
Init ==
    /\ classes = {}
    /\ users = {AdminRow}
    /\ attendance = {}
    /\ holidays = {}
    /\ seq = [t \in {"classes", "users", "attendance", "holidays"} |->
                 IF t = "users" THEN 1 ELSE 0]
    /\ session = NoUser
    /\ today = FirstDate
    /\ active = {"login"}
    /\ userInfo = "hidden"
    /\ picker = 0
    /\ logoutSent = 0
    /\ pending = <<>>
    /\ reportView = NoReport
    /\ last = Rec("boot", "ok", NoUser)

Next ==
    \/ Boot
    \/ ShowSignup
    \/ ShowLogin
    \/ \E u \in Usernames, p \in Passwords : HandleLogin(u, p)
    \/ \E u \in Usernames, p \in Passwords, c \in ClassIds :
          HandleSignup("n1", u, p, c)
    \/ HandleLogoutStart
    \/ HandleLogoutDone
    \/ HandleLogoutFail
    \/ \E id \in UserIds : ApproveTeacher(id)
    \/ \E n \in ClassNames : AddClass(n)
    \/ \E n \in Names, u \in Usernames, p \in {"", "p"} : AddStudent(n, u, p)
    \/ \E id \in UserIds, n \in Names : EditStudent(id, n)
    \/ \E id \in UserIds : DeleteStudent(id)
    \/ \E id \in {0} \cup UserIds, st \in ButtonStatuses, rm \in RemarkTexts :
          MarkAttendance(id, st, rm)
    \/ \E st \in ButtonStatuses : MarkAll(st)
    \/ \E m \in {0} \cup Months : PickMonth(m)
    \/ ViewMonthlyReport
    \/ \E i \in 1..MaxInFlight : ReportResponse(i)
    \/ \E d \in Dates : AddHoliday(d)
    \/ \E d \in Dates : DeleteHoliday(d)
    \/ Tick

\* The whole system. Its state space is the product of the account, class
\* room, holiday and report parts; the specifications below each take one
\* part, from a state the whole system reaches.
Spec == Init /\ [][Next]_vars

\* ------------------------------------------------- accounts and sessions
NextAccounts ==
    \/ Boot
    \/ ShowSignup
    \/ ShowLogin
    \/ \E u \in Usernames, p \in Passwords : HandleLogin(u, p)
    \/ \E u \in Usernames, c \in ClassIds : HandleSignup("n1", u, "p", c)
    \/ HandleLogoutStart
    \/ HandleLogoutDone
    \/ HandleLogoutFail
    \/ \E id \in UserIds : ApproveTeacher(id)
    \/ \E n \in ClassNames : AddClass(n)
    \/ \E u \in Usernames : AddStudent("n1", u, "")
    \/ \E i \in 1..MaxInFlight : ReportResponse(i)

SpecAccounts == Init /\ [][NextAccounts]_vars

\* ------------------------------------------------------------ class room
\* Two classes with an approved teacher each; class B has a student with a
\* mark for today; the teacher of class A has just logged in.
Teacher1 ==
    [id |-> 2, username |-> "u1", password |-> "p", full_name |-> "n1",
     role |-> "teacher", class_id |-> 1, teacher_status |-> "approved"]
Teacher2 ==
    [id |-> 3, username |-> "u2", password |-> "p", full_name |-> "n1",
     role |-> "teacher", class_id |-> 2, teacher_status |-> "approved"]
Student3 ==
    [id |-> 4, username |-> "u3", password |-> "studentpass",
     full_name |-> "n1", role |-> "student", class_id |-> 2,
     teacher_status |-> NullStatus]

Student5 ==
    [id |-> 5, username |-> "u4", password |-> "studentpass",
     full_name |-> "n1", role |-> "student", class_id |-> 1,
     teacher_status |-> NullStatus]
Student6 ==
    [id |-> 6, username |-> "u5", password |-> "studentpass",
     full_name |-> "n2", role |-> "student", class_id |-> 1,
     teacher_status |-> NullStatus]

\* The mark the student of class B has for the first day.
Row1 ==
    [id |-> 1, student_user_id |-> 4, date |-> FirstDate, status |-> "Absent",
     remarks |-> "r"]

MaxOf(S) == CHOOSE x \in S : \A y \in S : y <= x

\* The state after the teacher of class A logged in, over the given user,
\* attendance and holiday rows.
InitTeacherLoggedIn(rows, marks, hols) ==
    /\ classes = {[id |-> 1, name |-> "A"], [id |-> 2, name |-> "B"]}
    /\ users = rows
    /\ attendance = marks
    /\ holidays = hols
    /\ seq = [t \in {"classes", "users", "attendance", "holidays"} |->
                 CASE t = "users" -> Cardinality(rows)
                   [] t = "classes" -> 2
                   [] t = "attendance" -> MaxOf({0} \cup {r.id : r \in marks})
                   [] OTHER -> Cardinality(hols)]
    /\ session = 2
    /\ today = FirstDate
    /\ active = {"teacher"}
    /\ userInfo = "teacher"
    /\ picker = MonthOf(FirstDate)
    /\ logoutSent = 0
    /\ pending = <<MonthOf(FirstDate)>>
    /\ reportView = LoadingReport
    /\ last = [Rec("login", "ok", 2) EXCEPT !.text = "u1", !.extra = "p"]

\* Student management and marking: class A starts without students.
InitClassroom ==
    InitTeacherLoggedIn({AdminRow, Teacher1, Teacher2, Student3}, {Row1}, {})

StudentIdInputs == Student3.id .. MaxUserId

\* The rows whose buttons are pressed for rename and single marks: the other
\* class's student and the first student added to class A.
RowInputs == {Student3.id, Student5.id}

NextClassroom ==
    \/ \E u \in {"u4", "u5"} : AddStudent("n1", u, "")
    \/ \E id \in RowInputs : EditStudent(id, "n2")
    \/ \E id \in StudentIdInputs : DeleteStudent(id)
    \/ \E id \in {0} \cup RowInputs : MarkAttendance(id, "Full Day", "")
    \/ MarkAll("Half Day")
    \/ \E i \in 1..MaxInFlight : ReportResponse(i)
    \/ Tick

SpecClassroom == InitClassroom /\ [][NextClassroom]_vars

\* Attendance marking: class A has two students.
InitMarking ==
    InitTeacherLoggedIn({AdminRow, Teacher1, Teacher2, Student3, Student5, Student6},
                        {Row1}, {})

NextMarking ==
    \/ \E id \in {0} \cup StudentIdInputs : MarkAttendance(id, "Full Day", "")
    \/ \E id \in {0} \cup StudentIdInputs : MarkAttendance(id, "Absent", "r")
    \/ MarkAll("Half Day")
    \/ \E i \in 1..MaxInFlight : ReportResponse(i)
    \/ Tick

SpecMarking == InitMarking /\ [][NextMarking]_vars

\* -------------------------------------------------------------- holidays
\* Holiday management by the teacher of class A and by the administrator.
NextHolidays ==
    \/ \E d \in Dates : AddHoliday(d)
    \/ \E d \in Dates : DeleteHoliday(d)
    \/ \E i \in 1..MaxInFlight : ReportResponse(i)
    \/ HandleLogoutStart
    \/ HandleLogoutDone
    \/ \E u \in {"admin", "u1"} : HandleLogin(u, "p")

SpecHolidays == InitClassroom /\ [][NextHolidays]_vars

\* -------------------------------------------------------- monthly report
\* The report of class A over every attendance table one of its students
\* can have within the row budget: any status, or no row, on each date.
DateIndex(date) == (MonthOf(date) - 1) * DaysPerMonth + DayOf(date)

StudentTable(sid, f) ==
    {[id |-> 2 + DateIndex(d), student_user_id |-> sid, date |-> d,
      status |-> f[d], remarks |-> IF f[d] = "Absent" THEN "r" ELSE ""]
        : d \in {x \in Dates : f[x] # "none"}}

\* The class mate's single row: a day off, entered as an attendance row.
Row2 ==
    [id |-> 2, student_user_id |-> 6, date |-> <<1, 1>>, status |-> "Holiday",
     remarks |-> ""]

InitReport ==
    \E f \in [Dates -> {"none"} \cup Statuses] :
       /\ Cardinality({d \in Dates : f[d] # "none"}) <= MaxAttId - 1
       /\ InitTeacherLoggedIn(
             {AdminRow, Teacher1, Teacher2, Student3, Student5, Student6},
             {Row1, Row2} \cup StudentTable(5, f),
             {[id |-> 1, date |-> LastDate]})

NextReport ==
    \/ \E m \in {0} \cup Months : PickMonth(m)
    \/ ViewMonthlyReport
    \/ \E i \in 1..MaxInFlight : ReportResponse(i)

SpecReport == InitReport /\ [][NextReport]_vars

\* ------------------------------------------------------- view switching
\* The client's view functions called in any order with any argument, from
\* a page whose markup may mark any of the views active.
SwitchViewCall(viewName) ==
    /\ active' = SwitchView(active, viewName)
    /\ last' = [Rec("switchView", "ok", 0) EXCEPT !.text = viewName]
    /\ UNCHANGED <<dbVars, session, today, userInfo, logoutSent, reportVars>>

ShowDashboardCall(role) ==
    /\ role = "teacher" => CanSend
    /\ SetClient(ShowDashboard(Client, [id |-> NoUser, role |-> role]))
    /\ last' = [Rec("showDashboard", "ok", 0) EXCEPT !.text = role]
    /\ UNCHANGED <<dbVars, session, today, logoutSent>>

InitView ==
    /\ classes = {}
    /\ users = {AdminRow}
    /\ attendance = {}
    /\ holidays = {}
    /\ seq = [t \in {"classes", "users", "attendance", "holidays"} |->
                 IF t = "users" THEN 1 ELSE 0]
    /\ session = NoUser
    /\ today = FirstDate
    /\ active \in SUBSET views
    /\ userInfo = "hidden"
    /\ picker = 0
    /\ logoutSent = 0
    /\ pending = <<>>
    /\ reportView = NoReport
    /\ last = Rec("boot", "ok", NoUser)

NextView ==
    \/ \E v \in views \cup {"reports"} : SwitchViewCall(v)
    \/ \E r \in {"admin", "teacher", "student", "guest"} : ShowDashboardCall(r)
    \/ HandleLogoutStart
    \/ HandleLogoutDone
    \/ HandleLogoutFail
    \/ \E i \in 1..MaxInFlight : ReportResponse(i)

SpecView == InitView /\ [][NextView]_vars

\* ================================================================ claims
RowsOf(rows, sid, date) ==
    {r \in rows : r.student_user_id = sid /\ r.date = date}

\* C1: the attendance table holds at most one row per (student, date); a
\* markAttendance for a pair that already has a row is accepted, leaves
\* exactly one row for the pair, and that row carries the status and the
\* remarks of this latest call.
C1_OneRowPerStudentAndDate ==
    /\ \A r1, r2 \in attendance :
          (r1.student_user_id = r2.student_user_id /\ r1.date = r2.date)
             => r1 = r2
    /\ (last.op = "markAttendance" /\ last.pre >= 1 /\ InScope(last.id))
          => last.res = "ok"
    /\ (last.op = "markAttendance" /\ last.res = "ok")
          => /\ Cardinality(RowsOf(attendance, last.id, last.date)) = 1
             /\ \A r \in RowsOf(attendance, last.id, last.date) :
                   r.status = last.text /\ r.remarks = last.extra

\* A markAttendance has just overwritten the row of a pair marked before,
\* while other rows exist.
C1_Witness ==
    /\ last.op = "markAttendance"
    /\ last.res = "ok"
    /\ last.pre = 1
    /\ Cardinality(attendance) >= 3

\* C2: after a successful deleteStudent(id) no attendance row of id remains
\* and no monthly report of any class and month lists id among its students,
\* report or summary; every attendance row references an existing user.
DeletedIds == {i \in 1..seq["users"] : ~HasUser(i)}

C2_DeleteCascades ==
    /\ \A r \in attendance : HasUser(r.student_user_id)
    /\ (last.op = "deleteStudent" /\ last.res = "ok")
          => /\ ~HasUser(last.id)
             /\ \A r \in attendance : r.student_user_id # last.id
    /\ \A cid \in ClassIds, m \in Months :
          LET data == MonthlyReport(cid, m)
          IN \A i \in DeletedIds :
                /\ \A k \in DOMAIN data.students : data.students[k].id # i
                /\ i \notin DOMAIN data.report
                /\ i \notin DOMAIN data.summary
    /\ (last.op = "reportResponse" /\ last.res = "ok")
          => \A k \in DOMAIN reportView.rows : HasUser(reportView.rows[k].id)

\* A student who had attendance rows has just been deleted, while another
\* student of the class remains.
C2_Witness ==
    /\ last.op = "deleteStudent"
    /\ last.res = "ok"
    /\ last.pre >= 1
    /\ StudentsOf(1) # {}

\* C6: renameStudent(id, newName) by a teacher changes full_name, of row id
\* alone, when id is a student of the teacher's class; for any other id it
\* fails with NotFoundError and leaves every user row as it was.
C6_RenameOwnClassOnly ==
    [][last'.op = "renameStudent" =>
          IF \E u \in StudentsOf(SessionUser.class_id) : u.id = last'.id
          THEN /\ last'.res = "ok"
               /\ users' = {IF u.id = last'.id
                            THEN [u EXCEPT !.full_name = last'.text]
                            ELSE u : u \in users}
          ELSE /\ last'.res = "NotFoundError"
               /\ users' = users]_vars

\* A rename of the other class's student has just been refused.
C6_Witness ==
    /\ last.op = "renameStudent"
    /\ last.res = "NotFoundError"
    /\ \E u \in users : u.id = last.id /\ u.role = "student"
                        /\ u.class_id # SessionUser.class_id

\* C9: markAll(status) leaves every student of the teacher's class with
\* exactly one row for the current date, holding status; it changes no row
\* of a student of another class and no row of another date; with no student
\* in the class it succeeds and writes nothing.
OutsideMarkAll(rows) ==
    {r \in rows : \/ r.date # today
                  \/ ~\E u \in StudentsOf(SessionUser.class_id) :
                         u.id = r.student_user_id}

C9_MarkAllFrame ==
    [][last'.op = "markAll" =>
          /\ last'.res = "ok"
          /\ \A u \in StudentsOf(SessionUser.class_id) :
                /\ Cardinality(RowsOf(attendance', u.id, today)) = 1
                /\ \A r \in RowsOf(attendance', u.id, today) :
                      r.status = last'.text
          /\ OutsideMarkAll(attendance') = OutsideMarkAll(attendance)
          /\ StudentsOf(SessionUser.class_id) = {} => attendance' = attendance
          /\ users' = users]_vars

\* markAll has just run over a class of two students, one of them marked
\* before, with rows of the other class and of another date in the table.
C9_Witness ==
    /\ last.op = "markAll"
    /\ last.res = "ok"
    /\ Cardinality(StudentsOf(SessionUser.class_id)) = 2
    /\ \E r \in attendance : r.date # today
    /\ \E r \in attendance : r.student_user_id = Student3.id
    /\ last.pre = 1

\* C3: a teacher created by registerTeacher is pending; while pending,
\* every login with that teacher's username fails with AuthError, the
\* correct password included, and the session is never that teacher's; a
\* pending teacher's row changes only by approveTeacher of that id.
PendingTeachers ==
    {u \in users : u.role = "teacher" /\ u.teacher_status = "pending"}

C3_PendingTeacherCannotLogin ==
    /\ [](/\ (last.op = "registerTeacher" /\ last.res = "ok")
                => \E u \in PendingTeachers : u.id = last.id
          /\ (last.op = "login" /\ \E u \in PendingTeachers : u.username = last.text)
                => last.res = "AuthError"
          /\ \A u \in PendingTeachers : session # u.id)
    /\ [][\A u \in PendingTeachers :
             \/ u \in users'
             \/ /\ last'.op = "approveTeacher"
                /\ last'.id = u.id
                /\ last'.res = "ok"
                /\ [u EXCEPT !.teacher_status = "approved"] \in users']_vars

\* A login with the username and the password of a pending teacher has just
\* been refused.
C3_Witness ==
    /\ last.op = "login"
    /\ last.res = "AuthError"
    /\ \E u \in PendingTeachers :
          u.username = last.text /\ u.password = last.extra

C8_HolidayErrors ==
    /\ [](\A h1, h2 \in holidays : h1.date = h2.date => h1 = h2)
    /\ [][/\ (last'.op = "addHoliday" /\ \E h \in holidays : h.date = last'.date)
                => (last'.res = "DuplicateError" /\ holidays' = holidays)
          /\ (last'.op = "deleteHoliday" /\ ~\E h \in holidays : h.date = last'.date)
                => (last'.res = "NotFoundError" /\ holidays' = holidays)]_vars

\* A deleteHoliday of a date that was deleted before has just been refused
\* while another holiday is in the table.
C8_Witness ==
    /\ last.op = "deleteHoliday"
    /\ last.res = "NotFoundError"
    /\ holidays # {}
    /\ seq["holidays"] > Cardinality(holidays)

\* C10: once switchView, showDashboard or a completed handleLogout has run,
\* at most one view is active, and it stays so; showDashboard(user) leaves
\* the view of user.role active for admin, teacher and student and the login
\* view for any other role; a completed handleLogout leaves login active.
C10_OneActiveView ==
    /\ []((last.op \in {"switchView", "showDashboard"}
              \/ (last.op = "logout" /\ last.res = "ok"))
            => Cardinality(active) <= 1)
    /\ [][Cardinality(active) <= 1 => Cardinality(active') <= 1]_vars
    /\ [](last.op = "showDashboard"
            => active = (IF last.text \in {"admin", "teacher", "student"}
                         THEN {last.text} ELSE {"login"}))
    /\ []((last.op = "logout" /\ last.res = "ok") => active = {"login"})

\* showDashboard has just run for a user whose role has no dashboard.
C10_Witness ==
    /\ last.op = "showDashboard"
    /\ last.text = "guest"
    /\ active = {"login"}
    /\ userInfo = "guest"

\* C4: in a monthly report, each student of the class has one row whose
\* present column shows 1.0 for each Full Day row and 0.5 for each Half Day
\* row of the student in that month, and whose absent column shows the
\* number of Absent rows; nothing else counts.
MonthRowsWith(sid, month, status) ==
    {r \in attendance : /\ r.student_user_id = sid
                        /\ MonthOf(r.date) = month
                        /\ r.status = status}

C4_SummaryCounts ==
    (last.op = "reportResponse" /\ last.res = "ok") =>
       /\ \A u \in StudentsOf(SessionUser.class_id) :
             Cardinality({k \in DOMAIN reportView.rows :
                             reportView.rows[k].id = u.id}) = 1
       /\ \A k \in DOMAIN reportView.rows :
             LET row == reportView.rows[k]
                 full == Cardinality(MonthRowsWith(row.id, last.id, "Full Day"))
                 half == Cardinality(MonthRowsWith(row.id, last.id, "Half Day"))
                 gone == Cardinality(MonthRowsWith(row.id, last.id, "Absent"))
             IN /\ row.summary.present[2] \in 0..9
                /\ 10 * row.summary.present[1] + row.summary.present[2]
                      = 10 * full + 5 * half
                /\ row.summary.absent = gone

\* A report shows 1.5 present and 0 absent for a student who has an Absent
\* and a Holiday row outside or inside the month, next to a class mate whose
\* only row is a Holiday row.
C4_Witness ==
    /\ last.op = "reportResponse"
    /\ last.res = "ok"
    /\ \E k \in DOMAIN reportView.rows :
          /\ reportView.rows[k].id = 5
          /\ reportView.rows[k].summary = [present |-> <<1, 5>>, absent |-> 0]
    /\ \E r \in attendance : r.student_user_id = 5 /\ r.status = "Absent"
    /\ \E k \in DOMAIN reportView.rows :
          /\ reportView.rows[k].id = 6
          /\ reportView.rows[k].summary = [present |-> <<0, 0>>, absent |-> 0]

\* C5: the report of a month has an entry for a student and a date exactly
\* when an attendance row of that student exists on that date of the month;
\* a day of the month without a row is rendered as a blank cell and adds
\* nothing to the absent count.
C5_NoRowNoEntry ==
    /\ \A m \in Months :
          IsRole("teacher") =>
             LET data == MonthlyReport(SessionUser.class_id, m)
             IN \A u \in StudentsOf(SessionUser.class_id) :
                   DOMAIN data.report[u.id]
                      = {d \in Dates : MonthOf(d) = m
                                       /\ RowsOf(attendance, u.id, d) # {}}
    /\ (last.op = "reportResponse" /\ last.res = "ok") =>
          \A k \in DOMAIN reportView.rows :
             LET row == reportView.rows[k]
             IN /\ \A j \in DOMAIN row.cells :
                      RowsOf(attendance, row.id, <<last.id, j>>) = {}
                         => row.cells[j].content = "&nbsp;"
                /\ row.summary.absent
                      = Cardinality({j \in DOMAIN row.cells :
                           \E r \in RowsOf(attendance, row.id, <<last.id, j>>) :
                              r.status = "Absent"})

\* A rendered row shows a blank cell for an unmarked day next to a marked
\* Absent day, and counts one absence.
C5_Witness ==
    /\ last.op = "reportResponse"
    /\ last.res = "ok"
    /\ \E k \in DOMAIN reportView.rows :
          /\ \E j \in DOMAIN reportView.rows[k].cells :
                reportView.rows[k].cells[j].content = "&nbsp;"
          /\ \E j \in DOMAIN reportView.rows[k].cells :
                reportView.rows[k].cells[j].content = "A"
          /\ reportView.rows[k].summary.absent = 1

\* C11: whatever happens while a report request is in flight (the month
\* picker changes, another request is issued), the table rendered from the
\* response for month M shows, for every student and every day d, the cell
\* of report[student][M-d]: the status letter of that entry with its remarks,
\* or a blank cell when the report has no such entry.
C11_CellsOfResponseMonth ==
    (last.op = "reportResponse" /\ last.res = "ok") =>
       LET data == MonthlyReport(SessionUser.class_id, last.id)
       IN \A k \in DOMAIN reportView.rows :
             LET row == reportView.rows[k]
             IN \A j \in DOMAIN row.cells :
                   row.cells[j]
                      = RenderCell(data.report[row.id], last.id,
                                   data.days_in_month[j])

====
